---- MODULE Spec2Model ----
(***************************************************************************)
(* Model of nuice, a full-screen terminal directory browser.              *)
(*                                                                         *)
(* src/src/main.rs is the running program: the control loop of run, the   *)
(* State struct, cursor_position, handle_keypress, the move_* functions   *)
(* and the line formatter.  Strings are sequences of one-character        *)
(* strings, so that trim_start, trim_end_matches and replace are computed *)
(* character by character as the code does.  A directory is the sequence  *)
(* of the names leading to it from the root.                              *)
(***************************************************************************)
EXTENDS Integers, Sequences, FiniteSets, TLC

VARIABLES
    fs,            \* the paths that exist in the filesystem
    cwd,           \* the process working directory
    cursor,        \* State.cursor
    dir,           \* State.dir
    paths,         \* State.paths : directory -> cursor
    prev_op,       \* State.prev_op : <<>> is None, <<op>> is Some(op)
    screen_lines,  \* State.screen_lines
    term,          \* the terminal: alternate screen entered, raw mode enabled
    pc,            \* where run is: "render", "await", "left", "quit", "error", "panic"
    hist,          \* the last key read and the cursor and directory it was read in
    left,          \* history: the cursor each directory had when a key was last handled in it
    removed,       \* how many entries the environment has removed
    arrow,         \* file_explorer.rs: the Cursor that run owns
    fe_lines,      \* file_explorer.rs: the lines run drew last
    fe_pc,         \* file_explorer.rs: where run is, "off" while main.rs runs
    fe_hist        \* file_explorer.rs: the last two keys read, the position and the listing before the last

vars == <<fs, cwd, cursor, dir, paths, prev_op, screen_lines, term, pc, hist, left,
          removed, arrow, fe_lines, fe_pc, fe_hist>>

main_vars == <<cwd, cursor, dir, paths, prev_op, screen_lines, pc, hist, left>>

fe_vars == <<arrow, fe_lines, fe_pc, fe_hist>>

----------------------------------------------------------------------------
(* Bounds *)

\* How many directory entries the environment may remove in one run.
MaxRemovals == 2

----------------------------------------------------------------------------
(* The filesystem the browser runs on *)

Root == << >>

nA    == <<"a">>
nSpA  == <<" ", "a">>
nAGt  == <<"a", ">">>
nSp   == <<" ">>
nB    == <<"b">>
nC    == <<"c">>
nD    == <<"d">>
nE    == <<"e">>
nZ    == <<"Z">>
nDotH == <<".", "h">>
nK    == <<"k">>
nS    == <<"s">>
nU    == <<"u">>

\* Every directory of the tree.
TreeDirs ==
    { Root,
      <<nSp>>, <<nSpA>>, <<nA>>, <<nAGt>>, <<nK>>, <<nU>>,
      <<nA, nB>>, <<nA, nD>>, <<nK, nS>> }

\* Every regular file of the tree.
TreeFiles == { <<nA, nC>>, <<nA, nDotH>>, <<nA, nD, nE>>, <<nA, nD, nZ>>, <<nU, nC>> }

Tree == TreeDirs \cup TreeFiles

\* Directories without search permission: changing into them is refused.
Locked == { <<nK>> }

\* Directories without read permission: listing them is refused.
Unreadable == { <<nU>> }

\* The directories the program may be started in.
StartDirs == { Root, <<nA>>, <<nA, nB>>, <<nK, nS>> }

----------------------------------------------------------------------------
(* Results and options *)

\* A Result: Ok(v), the error that "?" propagates, or a panic.
Ok(v) == [tag |-> "ok", val |-> v]
Err   == [tag |-> "err"]
Panic == [tag |-> "panic"]

None    == << >>
Some(x) == <<x>>

----------------------------------------------------------------------------
(* Strings and paths *)

\* The byte value of a character, which the sort compares.
Ord(c) ==
    CASE c = " " -> 32
      [] c = "." -> 46
      [] c = "/" -> 47
      [] c = ">" -> 62
      [] c = "Z" -> 90
      [] c = "a" -> 97
      [] c = "b" -> 98
      [] c = "c" -> 99
      [] c = "d" -> 100
      [] c = "e" -> 101
      [] c = "h" -> 104
      [] c = "k" -> 107
      [] c = "s" -> 115
      [] c = "u" -> 117

\* Ord for OsStr: lexicographic on the bytes.
LexLess(s, t) ==
    \E i \in 1..(Len(s) + 1) :
        /\ \A j \in 1..(i - 1) : j <= Len(t) /\ s[j] = t[j]
        /\ \/ i = Len(s) + 1 /\ Len(t) >= i
           \/ i <= Len(s) /\ i <= Len(t) /\ Ord(s[i]) < Ord(t[i])

RECURSIVE SortNames(_)
SortNames(S) ==
    IF S = {} THEN << >>
    ELSE LET m == CHOOSE x \in S : \A y \in S \ {x} : LexLess(x, y)
         IN  <<m>> \o SortNames(S \ {m})

RECURSIVE trim_start(_)
trim_start(s) ==
    IF s = << >> THEN s
    ELSE IF Head(s) = " " THEN trim_start(Tail(s)) ELSE s

RECURSIVE trim_end_matches(_, _)
trim_end_matches(s, c) ==
    IF s = << >> THEN s
    ELSE IF s[Len(s)] = c THEN trim_end_matches(SubSeq(s, 1, Len(s) - 1), c) ELSE s

replace(s, from, to) == [i \in 1..Len(s) |-> IF s[i] = from THEN to ELSE s[i]]

ends_with(s, c) == s # << >> /\ s[Len(s)] = c

Parent(p) == IF p = Root THEN Root ELSE SubSeq(p, 1, Len(p) - 1)

\* Path::file_name of an absolute directory path: None for the root.
file_name(p) == IF p = Root THEN None ELSE Some(p[Len(p)])

\* Path::join followed by the kernel's resolution of the joined path.
join(p, s) ==
    IF s = << >> \/ s = <<".">> THEN p
    ELSE IF s = <<".", ".">> THEN Parent(p)
    ELSE Append(p, s)

is_dir(f, p) == p \in f /\ p \in TreeDirs

\* The display of an absolute path.
RECURSIVE display(_)
display(p) ==
    IF p = Root THEN <<"/">>
    ELSE IF Len(p) = 1 THEN <<"/">> \o p[1]
    ELSE display(Parent(p)) \o <<"/">> \o p[Len(p)]

----------------------------------------------------------------------------
(* The filesystem boundary *)

\* The names of the direct children of directory d.
Children(f, d) == { p[Len(p)] : p \in { q \in f : q # Root /\ Parent(q) = d } }

\* Whether every directory on the way to absolute path p may be searched.
Searchable(p) == \A i \in 1..Len(p) : SubSeq(p, 1, i) \notin Locked

\* std::env::set_current_dir of an absolute path: the new working directory.
set_current_dir(f, target) ==
    IF is_dir(f, target) /\ Searchable(target) THEN Ok(target) ELSE Err

\* std::env::set_current_dir(".."): only the parent itself is looked up.
set_current_dir_up(f, d) ==
    IF is_dir(f, Parent(d)) /\ Parent(d) \notin Locked THEN Ok(Parent(d)) ELSE Err

----------------------------------------------------------------------------
(* The functions of main.rs *)

RECURSIVE Reverse(_)
Reverse(s) == IF s = << >> THEN s ELSE Append(Reverse(Tail(s)), Head(s))

\* get_dir_content with the entries sorted in descending order.
get_dir_content_descending(f, d) ==
    IF d \in Unreadable THEN Err ELSE Ok(Reverse(SortNames(Children(f, d))))

\* The entries of the working directory d, sorted; each entry ./name is
\* represented by its name.
get_dir_content(f, d) ==
    IF d \in Unreadable THEN Err ELSE Ok(SortNames(Children(f, d)))

\* The file name of the entry shown for an empty directory, PathBuf "   ../".
Placeholder == <<" ", " ", " ", ".", ".">>

pathbuf_to_string(f, d, name) ==
    IF is_dir(f, Append(d, name))
    THEN <<" ", " ", " ">> \o name \o <<"/">>
    ELSE <<" ", " ", " ">> \o name

format_screen_lines(c, content0, f, d) ==
    LET content == IF content0 # << >> THEN content0 ELSE <<Placeholder>>
        lines   == <<display(d), << >> >>
                   \o [i \in 1..Len(content) |-> pathbuf_to_string(f, d, content[i])]
        index   == c + 2
    IN  IF index < 0 \/ index >= Len(lines) THEN Panic
        ELSE Ok([lines EXCEPT ![index + 1] = <<" ", ">", " ">> \o trim_start(lines[index + 1])])

\* Iterator::position: the zero-based index of the first entry named last.
position(content, last) ==
    LET hits == { i \in 1..Len(content) : content[i] = last }
    IN  IF hits = {} THEN None
        ELSE Some((CHOOSE i \in hits : \A j \in hits : i <= j) - 1)

\* cursor_position without the lookup in state.paths.
cursor_position_no_memory(f, d, st_dir, st_paths, st_prev_op) ==
    IF st_prev_op # None /\ st_prev_op[1].kind = "Out"
    THEN LET last    == IF file_name(st_prev_op[1].path[1]) # None
                        THEN file_name(st_prev_op[1].path[1])[1]
                        ELSE << >>
             content == get_dir_content(f, d)
         IN  IF content.tag # "ok" THEN Err
             ELSE LET pos == position(content.val, last)
                  IN  Ok(IF pos # None THEN pos[1] ELSE 0)
    ELSE Ok(0)

cursor_position(f, d, st_dir, st_paths, st_prev_op) ==
    IF st_dir \in DOMAIN st_paths THEN Ok(st_paths[st_dir])
    ELSE IF st_prev_op # None /\ st_prev_op[1].kind = "Out"
    THEN LET op      == st_prev_op[1]
             last    == IF op.path # None /\ file_name(op.path[1]) # None
                        THEN file_name(op.path[1])[1]
                        ELSE << >>
             content == get_dir_content(f, d)
         IN  IF content.tag # "ok" THEN Err
             ELSE LET pos == position(content.val, last)
                  IN  Ok(IF pos # None THEN pos[1] ELSE 0)
    ELSE Ok(0)

\* move_down without the comparison against the number of rows.
move_down_unchecked(st_cursor, st_screen_lines) == st_cursor + 1

move_down(st_cursor, st_screen_lines) ==
    IF st_cursor + 1 < Len(st_screen_lines) - 2 THEN st_cursor + 1 ELSE st_cursor

\* move_up without the comparison against 0.
move_up_unguarded(st_cursor) == st_cursor - 1

move_up(st_cursor) ==
    IF st_cursor > 0 THEN st_cursor - 1 ELSE 0

\* The directory move_into_dir asks for, read back from the selected line.
into_target(d, st_cursor, st_screen_lines) ==
    LET path   == trim_start(st_screen_lines[st_cursor + 2 + 1])
        newdir == trim_start(replace(trim_end_matches(path, "/"), ">", " "))
    IN  join(d, newdir)

\* move_into_dir without the test for the trailing '/'.
move_into_dir_unguarded(f, d, st_cursor, st_screen_lines) ==
    set_current_dir(f, into_target(d, st_cursor, st_screen_lines))

\* move_into_dir: Ok(new working directory) or the error of set_current_dir.
move_into_dir(f, d, st_cursor, st_screen_lines) ==
    LET path == trim_start(st_screen_lines[st_cursor + 2 + 1])
    IN  IF ends_with(path, "/")
        THEN set_current_dir(f, into_target(d, st_cursor, st_screen_lines))
        ELSE Ok(d)

\* move_out_of_dir: Ok(new working directory) or the error of set_current_dir.
move_out_of_dir(f, d) == set_current_dir_up(f, d)

\* HashMap::insert
insert(m, k, v) == [x \in DOMAIN m \cup {k} |-> IF x = k THEN v ELSE m[x]]

----------------------------------------------------------------------------
(* The control loop of run *)

NoKey == [key |-> "", cursor |-> 0, cwd |-> Root]

\* The values of the variables of file_explorer.rs while it does not run.
NoCursor == [dir |-> Root, pos |-> 0, hidden |-> FALSE, hint |-> << >>]

NoKeys == [key |-> "", prev |-> "", pos |-> 0, list |-> << >>]

\* State::new, after the alternate screen is entered and raw mode enabled.
Init ==
    /\ fs = Tree
    /\ cwd \in StartDirs
    /\ cursor = 0
    /\ dir = cwd
    /\ paths = [x \in {} |-> 0]
    /\ prev_op = None
    /\ screen_lines = format_screen_lines(0, get_dir_content(fs, cwd).val, fs, cwd).val
    /\ term = [alt |-> TRUE, raw |-> TRUE]
    /\ pc = "render"
    /\ hist = NoKey
    /\ left = [x \in {} |-> 0]
    /\ removed = 0
    /\ arrow = NoCursor
    /\ fe_lines = << >>
    /\ fe_pc = "off"
    /\ fe_hist = NoKeys

\* The first half of the loop body: state.dir, state.cursor, state.screen_lines.
Render ==
    /\ pc = "render"
    /\ LET cp      == cursor_position(fs, cwd, cwd, paths, prev_op)
           content == get_dir_content(fs, cwd)
           lines   == format_screen_lines(cp.val, content.val, fs, cwd)
       IN  /\ dir' = cwd
           /\ IF cp.tag # "ok"
              THEN pc' = "error" /\ UNCHANGED <<cursor, screen_lines>>
              ELSE /\ cursor' = cp.val
                   /\ IF content.tag # "ok"
                      THEN pc' = "error" /\ UNCHANGED screen_lines
                      ELSE IF lines.tag # "ok"
                      THEN pc' = "panic" /\ UNCHANGED screen_lines
                      ELSE pc' = "await" /\ screen_lines' = lines.val
    /\ UNCHANGED <<fs, cwd, paths, prev_op, term, hist, left, removed, fe_vars>>

\* read_char returned c.
Read(c) == hist' = [key |-> c, cursor |-> cursor, cwd |-> cwd]

\* handle_keypress returned Ok: the key was handled in the working directory
\* it was read in, and left the cursor it returned.
Handled == left' = insert(left, cwd, cursor')

\* 'j' without the write to state.paths.
KeyDown_no_insert ==
    /\ pc = "await"
    /\ Read("j")
    /\ cursor' = move_down(cursor, screen_lines)
    /\ Handled
    /\ prev_op' = None
    /\ paths' = paths
    /\ pc' = "render"
    /\ UNCHANGED <<fs, cwd, dir, screen_lines, term, removed, fe_vars>>

\* 'j'
KeyDown ==
    /\ pc = "await"
    /\ Read("j")
    /\ cursor' = move_down(cursor, screen_lines)
    /\ Handled
    /\ prev_op' = None
    /\ paths' = insert(paths, dir, cursor')
    /\ pc' = "render"
    /\ UNCHANGED <<fs, cwd, dir, screen_lines, term, removed, fe_vars>>

\* 'k'
KeyUp ==
    /\ pc = "await"
    /\ Read("k")
    /\ cursor' = move_up(cursor)
    /\ Handled
    /\ prev_op' = None
    /\ paths' = insert(paths, dir, cursor')
    /\ pc' = "render"
    /\ UNCHANGED <<fs, cwd, dir, screen_lines, term, removed, fe_vars>>

\* 'h' with state.prev_op assigned before move_out_of_dir is tried.
KeyOut_early ==
    /\ pc = "await"
    /\ Read("h")
    /\ prev_op' = Some([kind |-> "Out", path |-> Some(dir)])
    /\ LET r == move_out_of_dir(fs, cwd)
       IN  IF r.tag # "ok"
           THEN pc' = "error" /\ UNCHANGED <<cwd, cursor, paths, left>>
           ELSE /\ cwd' = r.val
                /\ cursor' = cursor
                /\ paths' = insert(paths, dir, cursor')
                /\ pc' = "render"
                /\ Handled
    /\ UNCHANGED <<fs, dir, screen_lines, term, removed, fe_vars>>

\* 'h'
KeyOut ==
    /\ pc = "await"
    /\ Read("h")
    /\ LET r == move_out_of_dir(fs, cwd)
       IN  IF r.tag # "ok"
           THEN pc' = "error" /\ UNCHANGED <<cwd, cursor, prev_op, paths, left>>
           ELSE /\ cwd' = r.val
                /\ cursor' = cursor
                /\ prev_op' = Some([kind |-> "Out", path |-> Some(dir)])
                /\ paths' = insert(paths, dir, cursor')
                /\ pc' = "render"
                /\ Handled
    /\ UNCHANGED <<fs, dir, screen_lines, term, removed, fe_vars>>

\* 'l' with the memory written under the directory entered.
KeyInto_insert_new ==
    /\ pc = "await"
    /\ Read("l")
    /\ LET r == move_into_dir(fs, cwd, cursor, screen_lines)
       IN  IF r.tag # "ok"
           THEN pc' = "error" /\ UNCHANGED <<cwd, cursor, prev_op, paths, left>>
           ELSE /\ cwd' = r.val
                /\ cursor' = cursor
                /\ prev_op' = None
                /\ paths' = insert(paths, cwd', cursor')
                /\ pc' = "render"
                /\ Handled
    /\ UNCHANGED <<fs, dir, screen_lines, term, removed, fe_vars>>

\* 'l'
KeyInto ==
    /\ pc = "await"
    /\ Read("l")
    /\ LET r == move_into_dir(fs, cwd, cursor, screen_lines)
       IN  IF r.tag # "ok"
           THEN pc' = "error" /\ UNCHANGED <<cwd, cursor, prev_op, paths, left>>
           ELSE /\ cwd' = r.val
                /\ cursor' = cursor
                /\ prev_op' = None
                /\ paths' = insert(paths, dir, cursor')
                /\ pc' = "render"
                /\ Handled
    /\ UNCHANGED <<fs, dir, screen_lines, term, removed, fe_vars>>

\* The characters handle_keypress has no arm for.
OtherKeys == {"g", "G", ".", "x"}

\* A character without an arm, with the write to state.paths left out.
KeyOther_no_insert ==
    /\ pc = "await"
    /\ \E c \in OtherKeys : Read(c)
    /\ cursor' = cursor
    /\ Handled
    /\ pc' = "render"
    /\ UNCHANGED <<fs, cwd, dir, paths, prev_op, screen_lines, term, removed, fe_vars>>

\* A character without an arm that resets the cursor.
KeyOther_reset ==
    /\ pc = "await"
    /\ \E c \in OtherKeys : Read(c)
    /\ cursor' = 0
    /\ Handled
    /\ paths' = insert(paths, dir, cursor')
    /\ pc' = "render"
    /\ UNCHANGED <<fs, cwd, dir, prev_op, screen_lines, term, removed, fe_vars>>

KeyOther ==
    /\ pc = "await"
    /\ \E c \in OtherKeys : Read(c)
    /\ cursor' = cursor
    /\ Handled
    /\ paths' = insert(paths, dir, cursor')
    /\ pc' = "render"
    /\ UNCHANGED <<fs, cwd, dir, prev_op, screen_lines, term, removed, fe_vars>>

\* 'q' with the key handed to the rest of the loop body before the break.
Quit_after_insert ==
    /\ pc = "await"
    /\ Read("q")
    /\ paths' = insert(paths, dir, cursor)
    /\ term' = [term EXCEPT !.alt = FALSE]
    /\ pc' = "left"
    /\ UNCHANGED <<fs, cwd, cursor, dir, prev_op, screen_lines, left, removed, fe_vars>>

\* 'q': leave the loop and leave the alternate screen.
Quit ==
    /\ pc = "await"
    /\ Read("q")
    /\ term' = [term EXCEPT !.alt = FALSE]
    /\ pc' = "left"
    /\ UNCHANGED <<fs, cwd, cursor, dir, paths, prev_op, screen_lines, left, removed, fe_vars>>

\* The last line of run: disable raw mode and return.
DisableRaw ==
    /\ pc = "left"
    /\ term' = [term EXCEPT !.raw = FALSE]
    /\ pc' = "quit"
    /\ UNCHANGED <<fs, cwd, cursor, dir, paths, prev_op, screen_lines, hist, left, removed, fe_vars>>

\* The entries the environment may remove while the browser runs.
Volatile == { <<nA, nB>>, <<nA, nC>>, <<nA, nD>>, <<nA, nD, nE>> }

\* Another process removes a file or an empty directory.
EnvRemove ==
    /\ pc \in {"render", "await"}
    /\ removed < MaxRemovals
    /\ \E p \in (fs \cap Volatile) \ {cwd} :
          /\ Children(fs, p) = {}
          /\ fs' = fs \ {p}
    /\ removed' = removed + 1
    /\ UNCHANGED <<cwd, cursor, dir, paths, prev_op, screen_lines, term, pc, hist, left, fe_vars>>

Next ==
    \/ Render
    \/ KeyDown
    \/ KeyUp
    \/ KeyOut
    \/ KeyInto
    \/ KeyOther
    \/ Quit
    \/ DisableRaw

\* The browser over a directory tree whose contents do not change.
Spec == Init /\ [][Next]_vars

NextEnv == Next \/ EnvRemove

\* The browser while other processes remove entries.
SpecEnv == Init /\ [][NextEnv]_vars

----------------------------------------------------------------------------
(* file_explorer.rs: the control loop over a Cursor.  The Cursor type      *)
(* (crate::cursor) is not among the sources; its operations follow the     *)
(* Navigator of the specification, with the hint-based restore policy.     *)

Clamp(i, n) == IF i < 0 THEN 0 ELSE IF i > n - 1 THEN n - 1 ELSE i

\* Cursor::new and Cursor::init in directory d.
Cursor_new(d, show) == [dir |-> d, pos |-> 0, hidden |-> show, hint |-> None]

\* Cursor::current_siblings: the Directory Lister under the hidden-file policy
\* (hidden = TRUE shows the entries whose name begins with a dot).
Cursor_list(f, d, show) ==
    IF d \in Unreadable THEN Err
    ELSE Ok(SortNames({ n \in Children(f, d) : show \/ Head(n) # "." }))

Cursor_current_siblings(f, a) == Cursor_list(f, a.dir, a.hidden)

\* The length of the Listing: an empty directory lists one placeholder.
Cursor_len(f, d, show) ==
    LET l == Cursor_list(f, d, show).val IN IF l = << >> THEN 1 ELSE Len(l)

Cursor_move_down(f, a) ==
    LET n == Cursor_len(f, a.dir, a.hidden)
    IN  Ok([a EXCEPT !.pos = IF a.pos + 1 < n - 1 THEN a.pos + 1 ELSE n - 1,
                     !.hint = None])

Cursor_move_up(f, a) ==
    Ok([a EXCEPT !.pos = IF a.pos - 1 > 0 THEN a.pos - 1 ELSE 0, !.hint = None])

Cursor_move_top(f, a) == Ok([a EXCEPT !.pos = 0, !.hint = None])

Cursor_move_bottom(f, a) ==
    Ok([a EXCEPT !.pos = Cursor_len(f, a.dir, a.hidden) - 1, !.hint = None])

Cursor_toggle_hidden_files(f, a) ==
    Ok([a EXCEPT !.hidden = ~a.hidden,
                 !.pos = Clamp(a.pos, Cursor_len(f, a.dir, ~a.hidden)),
                 !.hint = None])

\* MoveInto: the working directory becomes the entry's path and the cursor
\* starts at 0; the placeholder and files are no-ops.
Cursor_move_in(f, a) ==
    LET l      == Cursor_list(f, a.dir, a.hidden).val
        target == Append(a.dir, l[a.pos + 1])
    IN  IF a.pos < Len(l) /\ target \in TreeDirs
        THEN IF ~is_dir(f, target) \/ ~Searchable(target) \/ target \in Unreadable
             THEN Err
             ELSE Ok([a EXCEPT !.dir = target, !.pos = 0, !.hint = None])
        ELSE Ok([a EXCEPT !.hint = None])

\* MoveOut: the working directory becomes the parent, the hint names the
\* directory left, and the cursor goes to the entry of that name, else to 0.
Cursor_move_out(f, a) ==
    IF a.dir = Root THEN Ok([a EXCEPT !.hint = None])
    ELSE LET target == Parent(a.dir)
             name   == a.dir[Len(a.dir)]
         IN  IF ~is_dir(f, target) \/ target \in Locked \/ target \in Unreadable
             THEN Err
             ELSE LET pos == position(Cursor_list(f, target, a.hidden).val, name)
                  IN  Ok([a EXCEPT !.dir = target,
                                   !.hint = Some(name),
                                   !.pos = IF pos # None THEN pos[1] ELSE 0])

format_pathbuf(f, d, name) ==
    IF is_dir(f, Append(d, name))
    THEN <<" ", " ", " ">> \o name \o <<"/">>
    ELSE <<" ", " ", " ">> \o name

format_lines(current_dir, current_siblings, p, f) ==
    LET content == IF current_siblings # << >> THEN current_siblings ELSE <<Placeholder>>
        lines   == <<display(current_dir), << >> >>
                   \o [i \in 1..Len(content) |-> format_pathbuf(f, current_dir, content[i])]
        index   == p + 2
    IN  IF index < 0 \/ index >= Len(lines) THEN Panic
        ELSE Ok([lines EXCEPT ![index + 1] = <<" ", ">", " ">> \o trim_start(lines[index + 1])])

\* handle_keypress with the arms of 'G' and 'g' exchanged.
FE_handle_keypress_swapped(c, a, f) ==
    CASE c = "j" -> Cursor_move_down(f, a)
      [] c = "k" -> Cursor_move_up(f, a)
      [] c = "h" -> Cursor_move_out(f, a)
      [] c = "l" -> Cursor_move_in(f, a)
      [] c = "G" -> Cursor_move_top(f, a)
      [] c = "g" -> Cursor_move_bottom(f, a)
      [] c = "." -> Cursor_toggle_hidden_files(f, a)
      [] OTHER   -> Ok(a)

\* handle_keypress without the arm of '.', as in main.rs.
FE_handle_keypress_no_toggle(c, a, f) ==
    CASE c = "j" -> Cursor_move_down(f, a)
      [] c = "k" -> Cursor_move_up(f, a)
      [] c = "h" -> Cursor_move_out(f, a)
      [] c = "l" -> Cursor_move_in(f, a)
      [] c = "G" -> Cursor_move_bottom(f, a)
      [] c = "g" -> Cursor_move_top(f, a)
      [] OTHER   -> Ok(a)

\* handle_keypress of file_explorer.rs
FE_handle_keypress(c, a, f) ==
    CASE c = "j" -> Cursor_move_down(f, a)
      [] c = "k" -> Cursor_move_up(f, a)
      [] c = "h" -> Cursor_move_out(f, a)
      [] c = "l" -> Cursor_move_in(f, a)
      [] c = "G" -> Cursor_move_bottom(f, a)
      [] c = "g" -> Cursor_move_top(f, a)
      [] c = "." -> Cursor_toggle_hidden_files(f, a)
      [] OTHER   -> Ok(a)

\* The characters read_char may return, 'q' apart.
FEKeys == {"j", "k", "h", "l", "G", "g", ".", "x"}

\* The directories file_explorer.rs may be started in.
FEStartDirs == { Root, <<nA>>, <<nA, nB>> }

FEInit ==
    /\ fs = Tree
    /\ cwd = Root
    /\ cursor = 0
    /\ dir = Root
    /\ paths = [x \in {} |-> 0]
    /\ prev_op = None
    /\ screen_lines = << >>
    /\ term = [alt |-> TRUE, raw |-> TRUE]
    /\ pc = "off"
    /\ hist = NoKey
    /\ left = [x \in {} |-> 0]
    /\ removed = 0
    /\ \E d \in FEStartDirs, show \in BOOLEAN : arrow = Cursor_new(d, show)
    /\ fe_lines = << >>
    /\ fe_pc = "render"
    /\ fe_hist = NoKeys

\* The first half of the loop body: the lines are formatted and drawn.
FERender ==
    /\ fe_pc = "render"
    /\ LET sib   == Cursor_current_siblings(fs, arrow)
           lines == format_lines(arrow.dir, sib.val, arrow.pos, fs)
       IN  IF sib.tag # "ok"
           THEN fe_pc' = "error" /\ UNCHANGED fe_lines
           ELSE IF lines.tag # "ok"
           THEN fe_pc' = "panic" /\ UNCHANGED fe_lines
           ELSE fe_pc' = "await" /\ fe_lines' = lines.val
    /\ UNCHANGED <<fs, term, removed, main_vars, arrow, fe_hist>>

\* A character other than 'q' is read and handled.
FEKey ==
    /\ fe_pc = "await"
    /\ \E c \in FEKeys :
          /\ fe_hist' = [key |-> c, prev |-> fe_hist.key, pos |-> arrow.pos,
                          list |-> Cursor_current_siblings(fs, arrow).val]
          /\ LET r == FE_handle_keypress(c, arrow, fs)
             IN  IF r.tag # "ok"
                 THEN fe_pc' = "error" /\ UNCHANGED arrow
                 ELSE fe_pc' = "render" /\ arrow' = r.val
    /\ UNCHANGED <<fs, term, removed, main_vars, fe_lines>>

\* 'q': leave the loop and leave the alternate screen.
FEQuit ==
    /\ fe_pc = "await"
    /\ fe_hist' = [key |-> "q", prev |-> fe_hist.key, pos |-> arrow.pos,
                    list |-> Cursor_current_siblings(fs, arrow).val]
    /\ term' = [term EXCEPT !.alt = FALSE]
    /\ fe_pc' = "left"
    /\ UNCHANGED <<fs, removed, main_vars, arrow, fe_lines>>

\* The last line of run: disable raw mode and return.
FEDisableRaw ==
    /\ fe_pc = "left"
    /\ term' = [term EXCEPT !.raw = FALSE]
    /\ fe_pc' = "quit"
    /\ UNCHANGED <<fs, removed, main_vars, arrow, fe_lines, fe_hist>>

FENext ==
    \/ FERender
    \/ FEKey
    \/ FEQuit
    \/ FEDisableRaw

\* The browser of file_explorer.rs over fixed directory contents.
SpecFE == FEInit /\ [][FENext]_vars

----------------------------------------------------------------------------
(* Helpers of the properties *)

Min(a, b) == IF a < b THEN a ELSE b
Max(a, b) == IF a > b THEN a ELSE b

\* The listing of directory d (empty where it cannot be read).
Listing(d) == IF d \in Unreadable THEN << >> ELSE SortNames(Children(fs, d))

\* The number of rows a listing of length n is shown with.
Rows(n) == Max(1, n)

\* The zero-based rows of directory d at which the entry called name stands.
RowsOf(d, name) == { i \in 0..(Len(Listing(d)) - 1) : Listing(d)[i + 1] = name }

\* The key just handled was c, and the next render has not happened yet.
JustHandled(c) == pc = "render" /\ hist.key = c

\* The entry the cursor was on when the last key was read (fixed contents).
SelectedThen == Listing(hist.cwd)[hist.cursor + 1]

SelectedDirThen ==
    /\ hist.cursor < Len(Listing(hist.cwd))
    /\ Append(hist.cwd, SelectedThen) \in TreeDirs

----------------------------------------------------------------------------
(* C1 *)

\* C1: over fixed directory contents, every render succeeds with
\* 0 <= cursor < max(1, len(listing of the current directory)), and the
\* line cursor+2 that carries the marker exists.
C1_CursorBounds ==
    /\ pc # "panic"
    /\ pc = "await" =>
          /\ 0 <= cursor
          /\ cursor < Rows(Len(Listing(cwd)))
          /\ cursor + 2 < Len(screen_lines)

\* A render with the cursor on the last of several rows, after a MoveDown
\* that was already on that row.
C1_Witness ==
    /\ pc = "await"
    /\ hist.key = "j"
    /\ hist.cwd = cwd
    /\ hist.cursor = cursor
    /\ cursor = Len(Listing(cwd)) - 1
    /\ cursor >= 2

----------------------------------------------------------------------------
(* C2 *)

\* C2: whenever a directory that is in the position memory is rendered, the
\* render succeeds and the cursor is the remembered index clamped to the
\* listing, also when entries were removed since the index was remembered.
C2_ClampedRestore ==
    [][ (pc = "render" /\ pc' # "render" /\ cwd \in DOMAIN paths) =>
            /\ pc' = "await"
            /\ cursor' = Min(paths[cwd], Rows(Len(Listing(cwd))) - 1) ]_vars

----------------------------------------------------------------------------
(* C3 *)

\* C3: after a successful MoveOut from a directory C into its parent P, the
\* cursor rendered in P is on the row of the entry named C.
C3_AscendSelectsChild ==
    (pc = "await" /\ hist.key = "h" /\ hist.cwd # Root /\ cwd = Parent(hist.cwd)) =>
        cursor \in RowsOf(cwd, hist.cwd[Len(hist.cwd)])

----------------------------------------------------------------------------
(* C4 *)

\* C4: a successful MoveInto on a directory entry makes the working directory
\* that entry's path, whatever characters its name contains.
C4_MoveIntoTarget ==
    (JustHandled("l") /\ SelectedDirThen) => cwd = Append(hist.cwd, SelectedThen)

----------------------------------------------------------------------------
(* C5 *)

\* C5: a directory without entries is shown as two header lines and one
\* placeholder row with the cursor at 0; MoveInto on the placeholder or on a
\* file changes neither the working directory nor the cursor (and does not
\* fail); MoveDown on the placeholder leaves the cursor at 0.
C5_EmptyAndNonDirRows ==
    /\ (pc = "await" /\ Listing(cwd) = << >>) =>
          /\ cursor = 0
          /\ Len(screen_lines) = 3
          /\ screen_lines[3] = <<" ", ">", " ", ".", ".">>
    /\ (hist.key = "l" /\ pc \in {"render", "error"} /\ ~SelectedDirThen) =>
          /\ pc = "render"
          /\ cwd = hist.cwd
          /\ cursor = hist.cursor
    /\ (hist.key = "j" /\ pc = "render" /\ Listing(hist.cwd) = << >>) =>
          /\ cursor = 0
          /\ cwd = hist.cwd

\* MoveInto was handled on the placeholder row of an empty directory.
C5_Witness ==
    /\ JustHandled("l")
    /\ Listing(hist.cwd) = << >>
    /\ screen_lines[3] = <<" ", ">", " ", ".", ".">>

----------------------------------------------------------------------------
(* C6 *)

\* C6: MoveDown takes an in-bounds cursor c to min(c+1, max(1,n)-1) and
\* MoveUp takes it to max(c-1, 0), n being the length of the listing; neither
\* changes the working directory, the directory's contents (hence the
\* listing) or the lines on screen.
C6_StepSaturation ==
    [][ (pc = "await" /\ pc' = "render" /\ hist'.key \in {"j", "k"}) =>
            /\ hist'.key = "j" =>
                  cursor' = Min(cursor + 1, Rows(Len(Listing(cwd))) - 1)
            /\ hist'.key = "k" =>
                  cursor' = Max(cursor - 1, 0)
            /\ cwd' = cwd
            /\ fs' = fs
            /\ screen_lines' = screen_lines ]_vars

\* MoveUp was handled on row 0 of a listing with several rows.
C6_Witness ==
    /\ JustHandled("k")
    /\ hist.cursor = 0
    /\ cursor = 0
    /\ Len(Listing(cwd)) >= 2

----------------------------------------------------------------------------
(* C7 *)

\* The listing file_explorer.rs shows for the Cursor's directory.
FEListing == SortNames({ n \in Children(fs, arrow.dir) : arrow.hidden \/ Head(n) # "." })

FEJustHandled(c) == fe_pc = "render" /\ fe_hist.key = c

----------------------------------------------------------------------------
(* C8 *)

\* C8: when an error propagates out of the control loop, the terminal has
\* left the alternate screen and raw mode before the run ends.
C8_TerminalRestoredOnError ==
    pc = "error" => (~term.alt /\ ~term.raw)

----------------------------------------------------------------------------
(* C9 *)

\* The operating system refuses the change of directory that key c asks for.
Rejected(c) ==
    \/ c = "h" /\ move_out_of_dir(fs, cwd).tag = "err"
    \/ c = "l" /\ move_into_dir(fs, cwd, cursor, screen_lines).tag = "err"

\* C9: when the working-directory change of MoveInto or MoveOut is rejected,
\* cursor, directory, position memory and hint are as before the command and
\* the error ends the loop: no further step is taken after it.
C9_AllOrNothing ==
    [][ /\ pc # "error"
        /\ (pc = "await" /\ Rejected(hist'.key)) =>
              /\ pc' = "error"
              /\ UNCHANGED <<cwd, cursor, dir, paths, prev_op>> ]_vars

\* MoveOut was rejected after earlier keys had filled the position memory.
C9_Witness ==
    /\ pc = "error"
    /\ hist.key = "h"
    /\ DOMAIN paths # {}

----------------------------------------------------------------------------
(* C10 *)

\* C10: a directory entered by MoveInto or MoveOut that has a memory entry is
\* rendered with the cursor it had when a key was last handled in it; a
\* directory without a memory entry that was not reached by MoveOut is
\* rendered with cursor 0.
C10_MemoryRestoreValue ==
    /\ (pc = "await" /\ hist.key \in {"h", "l"} /\ cwd # hist.cwd
            /\ cwd \in DOMAIN paths) =>
          (cwd \in DOMAIN left /\ cursor = left[cwd])
    /\ (pc = "await" /\ hist.key # "h" /\ cwd \notin DOMAIN paths) => cursor = 0

\* A directory is entered again and rendered with a remembered cursor
\* that is not row 0.
C10_Witness ==
    /\ pc = "await"
    /\ hist.key = "l"
    /\ cwd # hist.cwd
    /\ cwd \in DOMAIN paths
    /\ cursor = left[cwd]
    /\ cursor > 0

----------------------------------------------------------------------------
(* C11 *)

\* C11: a successful MoveInto or MoveOut that leaves directory D with cursor
\* c makes the position memory map D, not the directory entered, to c, and
\* changes the entry of no other directory.
C11_MemoryUpdateOnChange ==
    [][ (pc = "await" /\ pc' = "render" /\ hist'.key \in {"h", "l"} /\ cwd' # cwd) =>
            /\ DOMAIN paths' = DOMAIN paths \cup {cwd}
            /\ paths'[cwd] = cursor
            /\ \A d \in DOMAIN paths \ {cwd} : paths'[d] = paths[d] ]_vars

\* MoveOut left a directory with the cursor below row 0, for a parent that
\* keeps the entry it had.
C11_Witness ==
    /\ JustHandled("h")
    /\ cwd # hist.cwd
    /\ hist.cursor > 0
    /\ paths[hist.cwd] = hist.cursor
    /\ cwd \in DOMAIN paths
    /\ paths[cwd] # hist.cursor

----------------------------------------------------------------------------
(* C12 *)

\* The hint MoveOut records when it leaves directory d.
HintOf(d) == Some([kind |-> "Out", path |-> Some(d)])

\* The next render would take the cursor from the hint.
HintDecides == pc = "render" /\ prev_op # None /\ cwd \notin DOMAIN paths

----------------------------------------------------------------------------
(* C13 *)

\* C13: handling a character other than j, k, h, l, g, G, '.', q changes
\* neither the working directory nor the directory contents nor the cursor and
\* does not end the loop, and the render that follows draws the same lines
\* as the render before.
C13_UnknownKeyNoOp ==
    [][ /\ (pc = "await" /\ hist'.key = "x") =>
              /\ pc' = "render"
              /\ UNCHANGED <<cwd, fs, cursor, screen_lines, term>>
        /\ (pc = "render" /\ hist.key = "x") =>
              /\ pc' = "await"
              /\ UNCHANGED <<cwd, fs, cursor, screen_lines>> ]_vars

\* The render after an unknown character, in a directory reached by MoveOut
\* with the cursor below row 0.
C13_Witness ==
    /\ pc = "await"
    /\ hist.key = "x"
    /\ cursor > 0
    /\ prev_op # None

----------------------------------------------------------------------------
(* C14 *)

\* The program state a Navigator transition could change.
nav == <<cwd, cursor, dir, paths, prev_op, screen_lines, fs>>

\* 'q' ends the loop without any Navigator transition; then the alternate
\* screen is left, and after that raw mode is disabled.
QuitSteps ==
    /\ (pc = "await" /\ hist'.key = "q") =>
          /\ pc' = "left"
          /\ term' = [alt |-> FALSE, raw |-> TRUE]
          /\ UNCHANGED nav
    /\ pc = "left" =>
          /\ pc' = "quit"
          /\ term' = [alt |-> FALSE, raw |-> FALSE]
          /\ UNCHANGED nav
    /\ pc # "quit"

\* C14 as claimed: 'q' ends the loop without any Navigator transition, the
\* alternate screen is left and then raw mode disabled, and no other keypress
\* ends the loop.
C14_OnlyQuitEndsLoop ==
    [][ /\ QuitSteps
        /\ (pc = "await" /\ hist'.key # "q") => pc' = "render" ]_vars

\* C14 as amended: 'q' ends the loop without any Navigator transition, the
\* alternate screen is left and then raw mode disabled; 'q' is the only key
\* after which run returns Ok; any other keypress either continues the loop
\* or ends the run with the error of a rejected directory change, and a
\* render either waits for the next key or ends the run with the error of a
\* failed listing.
C14_Quit ==
    [][ /\ QuitSteps
        /\ (pc = "await" /\ hist'.key # "q") =>
              \/ pc' = "render"
              \/ pc' = "error" /\ hist'.key \in {"h", "l"} /\ Rejected(hist'.key)
        /\ pc = "render" =>
              \/ pc' = "await"
              \/ pc' = "error" /\ cwd \in Unreadable ]_vars

\* run has returned after 'q', read when the position memory was not empty.
C14_Witness ==
    /\ pc = "quit"
    /\ hist.key = "q"
    /\ term = [alt |-> FALSE, raw |-> FALSE]
    /\ DOMAIN paths # {}

----------------------------------------------------------------------------
(* C15 *)

\* The entries of the Cursor's directory that policy show lets through, in
\* the order of the names.
Visible(d, show) == SortNames({ n \in Children(fs, d) : show \/ Head(n) # "." })

NoDotEntry(l) == \A i \in 1..Len(l) : Head(l[i]) # "."

\* The name a drawn row shows: the row without its indentation or marker.
RowName(line) == SubSeq(line, 4, Len(line))

----------------------------------------------------------------------------
(* C16 *)

\* The paths of the tree that stand directly in directory d.
DirectChildren(d) == { p \in fs : Len(p) = Len(d) + 1 /\ SubSeq(p, 1, Len(d)) = d }

\* s comes strictly before t in the order of the bytes (case-sensitive).
RECURSIVE BytesLess(_, _)
BytesLess(s, t) ==
    IF t = << >> THEN FALSE
    ELSE IF s = << >> THEN TRUE
    ELSE IF Head(s) = Head(t) THEN BytesLess(Tail(s), Tail(t))
    ELSE Ord(Head(s)) < Ord(Head(t))

\* l lists every direct child of d once and nothing else, in ascending order.
SortedListingOf(l, d) ==
    /\ Len(l) = Cardinality(DirectChildren(d))
    /\ { Append(d, l[i]) : i \in 1..Len(l) } = DirectChildren(d)
    /\ \A i \in 1..(Len(l) - 1) : BytesLess(l[i], l[i + 1])

\* The text of the row of entry name of directory d, indentation apart.
RowText(d, name) == IF Append(d, name) \in TreeDirs THEN Append(name, "/") ELSE name

\* C16: the listing of every directory is a permutation of exactly its
\* direct children, in ascending case-sensitive byte order, directories and
\* files interleaved; every render of a directory shows that same sequence,
\* row i of the screen being entry i of the listing.
C16_ListingOrder ==
    /\ \A d \in (TreeDirs \cap fs) \ Unreadable :
          SortedListingOf(get_dir_content(fs, d).val, d)
    /\ pc = "await" =>
          LET l == get_dir_content(fs, cwd).val
          IN  /\ Len(screen_lines) = 2 + Rows(Len(l))
              /\ SortedListingOf(l, cwd)
              /\ \A i \in 1..Len(l) :
                    /\ trim_start(RowName(screen_lines[i + 2])) = trim_start(RowText(cwd, l[i]))
                    /\ i - 1 # cursor => screen_lines[i + 2] = <<" ", " ", " ">> \o RowText(cwd, l[i])

\* A directory is shown again after a key that kept it, and its listing has
\* a file between two directories; elsewhere an upper-case name precedes a
\* lower-case one.
C16_Witness ==
    /\ pc = "await"
    /\ hist.key = "j"
    /\ hist.cwd = cwd
    /\ cursor = 1
    /\ \E i \in 1..(Len(Listing(cwd)) - 2) :
          /\ Append(cwd, Listing(cwd)[i]) \in TreeDirs
          /\ Append(cwd, Listing(cwd)[i + 1]) \in TreeFiles
          /\ Append(cwd, Listing(cwd)[i + 2]) \in TreeDirs
    /\ get_dir_content(fs, <<nA, nD>>).val = <<nZ, nE>>

----------------------------------------------------------------------------
(* C17 *)

\* C17: after every render of a listing of length n with cursor c, the
\* screen has 2 + max(1, n) lines: line 0 is the path of the working
\* directory, line 1 is empty, and line i+2 is the name of entry i, followed
\* by '/' iff the entry is a directory, behind the marker " > " on line c+2
\* and behind three spaces on every other line.
C17_LineFormat ==
    pc = "await" =>
        LET l == Listing(cwd)
        IN  /\ 0 <= cursor /\ cursor < Rows(Len(l))
            /\ Len(screen_lines) = 2 + Rows(Len(l))
            /\ screen_lines[1] = display(cwd)
            /\ screen_lines[2] = << >>
            /\ \A i \in 1..Len(l) :
                  screen_lines[i + 2] =
                      (IF i - 1 = cursor THEN <<" ", ">", " ">> ELSE <<" ", " ", " ">>)
                      \o RowText(cwd, l[i])

----------------------------------------------------------------------------
(* C18 *)

\* The row the hint-based search gives in the working directory after the
\* directory left was called name: the first entry of that name, else 0.
HintRow(name) ==
    IF RowsOf(cwd, name) = {} THEN 0
    ELSE CHOOSE i \in RowsOf(cwd, name) : \A j \in RowsOf(cwd, name) : i <= j

LeftName == IF hist.cwd = Root THEN << >> ELSE hist.cwd[Len(hist.cwd)]

\* C18: every render takes the cursor from the memory entry of the working
\* directory if there is one, whatever the hint; without an entry it takes
\* the row of the hint if the key just handled was 'h', and 0 otherwise;
\* and after an 'h' that left a directory for its parent, a memory entry of
\* the parent holds the very row the hint-based search gives.
C18_MemoryBeforeHint ==
    pc = "await" =>
        /\ cwd \in DOMAIN paths => cursor = paths[cwd]
        /\ cwd \notin DOMAIN paths =>
              cursor = IF hist.key = "h" THEN HintRow(LeftName) ELSE 0
        /\ (hist.key = "h" /\ hist.cwd # Root /\ cwd \in DOMAIN paths) =>
              paths[cwd] = HintRow(LeftName)

----------------------------------------------------------------------------
(* C19 *)

\* C19: after every handled key other than 'q', the memory maps the
\* directory that was rendered before the key to the cursor the key left;
\* the memory holds exactly the directories in which a key was handled, each
\* with the cursor its last key left, and every remembered index is a row of
\* the listing of its directory.
C19_MemoryInvariant ==
    /\ (pc = "render" /\ hist.key \in {"j", "k", "h", "l"} \cup OtherKeys) =>
          /\ hist.cwd \in DOMAIN paths
          /\ paths[hist.cwd] = cursor
    /\ paths = left
    /\ \A d \in DOMAIN paths :
          /\ d \in TreeDirs \ Unreadable
          /\ 0 <= paths[d]
          /\ paths[d] < Rows(Len(Listing(d)))

\* An unrecognised key was handled on a row below the first while the
\* memory already held another directory.
C19_Witness ==
    /\ pc = "render"
    /\ hist.key = "x"
    /\ paths[hist.cwd] >= 1
    /\ Cardinality(DOMAIN paths) >= 2
    /\ \E d \in DOMAIN paths : d # hist.cwd /\ paths[d] >= 1

====
